---- MODULE Spec2Model ----
(***************************************************************************)
(* A model of src/src/main.rs: the process-wide Instrumentor (session,     *)
(* output stream, event counter) behind the INSTRUMENTOR mutex, and the    *)
(* InstrumentationTimer scope guard that submits one ProfileResult.        *)
(*                                                                         *)
(* Threads run the public calls step by step; every step that the code     *)
(* performs while it holds the INSTRUMENTOR mutex is a step of the thread  *)
(* that holds `lock`.  A file is the sequence of tokens written to it.     *)
(* A failed write!(..).unwrap() panics: the thread unwinds, the mutex is   *)
(* poisoned and every later lock().unwrap() panics as well.                *)
(***************************************************************************)
EXTENDS Integers, Sequences, FiniteSets, TLC

\* ------------------------------------------------------------- bounds
\* Timers created in a run, and the last reading of the clock.
MaxTimers == 2
MaxTime == 1

\* Two threads: the least number that lets two calls contend for the mutex.
Threads == {1, 2}
Time == 0..MaxTime

\* ------------------------------------------------------------- inputs
\* The (name, filepath) pairs begin_session is called with.
BeginInputs == {<<"S1", "a">>, <<"S2", "b">>, <<"S1", "bad">>}
GoodPaths == {"a", "b"}
BadPaths == {"bad"}
Paths == GoodPaths \cup BadPaths
Labels == {<<"q", "\"">>}

\* Option<T>: None is the empty sequence, Some(x) the one-element sequence.
None == <<>>
Some(x) == <<x>>
IsSome(o) == Len(o) = 1
Unwrap(o) == o[1]

VARIABLES
    current_session,  \* Instrumentor.current_session : Option<session name>
    output_stream,    \* Instrumentor.output_stream   : Option<path of the open File>
    profile_count,    \* Instrumentor.profile_count
    lock,             \* holder of the INSTRUMENTOR mutex, 0 when free
    poisoned,         \* the INSTRUMENTOR mutex is poisoned
    stream_lock,      \* holder of the Mutex<File> inside output_stream, 0 when free
    files,            \* path -> tokens written to the file
    created,          \* paths of the files that exist
    now,              \* the monotonic clock read by Instant::now()
    pc,               \* thread -> position
    bsArg,            \* thread -> arguments of its begin_session call
    result,           \* thread -> the ProfileResult of its write_profile call
    timer,            \* thread -> its InstrumentationTimer
    ntimers,          \* timers created so far
    returned,         \* timers whose write_profile returned in the current session
    acquired,         \* timers whose write_profile took the mutex and found the
                      \* stream, in the order they took it, in the current session
    aborted           \* the process aborted (a panic while unwinding)

collector == <<current_session, output_stream, profile_count>>
vars == <<current_session, output_stream, profile_count, lock, poisoned,
          stream_lock, files, created, now, pc, bsArg, result, timer,
          ntimers, returned, acquired, aborted>>

\* ------------------------------------------------------------- tokens
\* A token of a file: its kind k, the literal text of a fixed token, the
\* fields of an event object, and the timer (id) whose call wrote it.
Tok(k, text) ==
    [k |-> k, text |-> text, id |-> 0, dur |-> 0, name |-> <<>>, tid |-> 0,
     ts |-> 0]
\* write!(stream, "{{\"otherData\": {{}},\"traceEvents\":[")
Header == Tok("H", "{\"otherData\": {},\"traceEvents\":[")
\* write!(stream, "]}}")
Footer == Tok("F", "]}")
\* write!(stream, ",")
Comma(id) == [Tok(",", ",") EXCEPT !.id = id]
\* The bytes a failed write_all left behind: some prefix, possibly empty, of
\* what it was given.
Partial(id) == [Tok("partial", "") EXCEPT !.id = id]

\* A write that leaves the label as it is.
KeepQuotes(s) == s

\* result.name.replace('"', "'")
RECURSIVE ReplaceQuotes(_)
ReplaceQuotes(s) ==
    IF s = <<>> THEN <<>>
    ELSE <<IF Head(s) = "\"" THEN "'" ELSE Head(s)>> \o ReplaceQuotes(Tail(s))

\* The event object of line 88: dur = end - start, name sanitized, tid, ts = start.
EventTok(r) ==
    [k |-> "E", text |-> "", id |-> r.id, dur |-> r.end - r.start,
     name |-> ReplaceQuotes(r.name), tid |-> r.thread_id, ts |-> r.start]

NoArg == [name |-> "", filepath |-> ""]
NoResult == [id |-> 0, name |-> <<>>, start |-> 0, end |-> 0, thread_id |-> 0]
NoTimer == [state |-> "none", id |-> 0, name |-> <<>>, start_timepoint |-> None,
            stopped |-> FALSE, submits |-> 0, explicit |-> FALSE]

\* hasher.finish() as u32 of the thread's id: a value fixed for the thread.
ThreadIdHash(t) == t

\* ------------------------------------------------------------- Init
Init ==
    /\ current_session = None
    /\ output_stream = None
    /\ profile_count = 0
    /\ lock = 0
    /\ poisoned = FALSE
    /\ stream_lock = 0
    /\ files = [p \in Paths |-> <<>>]
    /\ created = {}
    /\ now = 0
    /\ pc = [t \in Threads |-> "idle"]
    /\ bsArg = [t \in Threads |-> NoArg]
    /\ result = [t \in Threads |-> NoResult]
    /\ timer = [t \in Threads |-> NoTimer]
    /\ ntimers = 0
    /\ returned = {}
    /\ acquired = <<>>
    /\ aborted = FALSE

\* ------------------------------------------------------------- helpers
\* A write that puts its bytes in front of what the file holds.
Prepend1(p, tok) == [files EXCEPT ![p] = <<tok>> \o @]

\* write!(stream, ..): the bytes go to the end of the file
Append1(p, tok) == [files EXCEPT ![p] = Append(@, tok)]

\* A mutex that excludes nobody.
LockAvailableAlways == TRUE

\* INSTRUMENTOR.lock(): the mutex is handed to one thread at a time.
LockAvailable == lock = 0

\* A begin_session that does not look for an active session.
SessionNeverActive == FALSE

\* self.current_session.is_some()
SessionActive == IsSome(current_session)

\* File::create(filepath) is Ok
Openable(filepath) == filepath \in GoodPaths

\* An off-by-one test of the counter.
NeedsCommaLate(count) == count > 1

\* self.profile_count > 0
NeedsComma(count) == count > 0

\* An end_session that forgets to reset the counter.
ResetCountKept == profile_count

\* self.profile_count = 0 of internal_end_session
ResetCount == 0

\* An end_session that leaves the stream in place.
TakeStreamKept == output_stream

\* self.output_stream.take(): what stays in the field
TakeStream == None

\* A stop() that reads start_timepoint without taking it.
TimepointKept(tm) == tm.start_timepoint

\* self.start_timepoint.take(): what stays in the field
TakenTimepoint(tm) == None

\* A duration taken the wrong way round.
DurationSinceReversed(endpoint, startpoint) == startpoint - endpoint

\* end_timepoint.duration_since(start_timepoint)
DurationSince(endpoint, startpoint) == endpoint - startpoint

\* A drop() that never calls stop().
DropNeverStops(tm) == FALSE

\* !self.stopped of drop
DropNeedsStop(tm) == ~tm.stopped

\* The timer is gone: only what it did is remembered.
Dropped(tm) ==
    [NoTimer EXCEPT !.state = "dropped", !.stopped = tm.stopped,
                    !.submits = tm.submits, !.explicit = tm.explicit]

\* A call that returns without giving up the mutex.
ReturnHoldingLock(t) ==
    /\ lock' = lock
    /\ pc' = [pc EXCEPT ![t] = "idle"]

\* The guard of `instrumentor` goes out of scope: the call returns.
Return(t) ==
    /\ lock' = 0
    /\ pc' = [pc EXCEPT ![t] = "idle"]

\* Unwinding of thread t after a panic.  The thread's timer is dropped:
\* drop() calls stop() unless `stopped`; a stop() that still finds
\* start_timepoint calls write_profile, whose lock().unwrap() panics on the
\* poisoned mutex while the thread is already unwinding, which aborts.
Unwind(t) ==
    LET tm == timer[t] IN
    /\ pc' = [pc EXCEPT ![t] = "panicked"]
    /\ bsArg' = [bsArg EXCEPT ![t] = NoArg]
    /\ result' = [result EXCEPT ![t] = NoResult]
    /\ IF tm.state = "live" /\ DropNeedsStop(tm) /\ IsSome(tm.start_timepoint)
       THEN /\ timer' = [timer EXCEPT ![t] =
                    [tm EXCEPT !.state = "dropping",
                               !.start_timepoint = TakenTimepoint(tm),
                               !.submits = @ + 1]]
            /\ aborted' = TRUE
       ELSE /\ timer' = [timer EXCEPT ![t] =
                    IF tm.state \in {"live", "dropping"}
                    THEN Dropped(tm) ELSE tm]
            /\ aborted' = aborted

\* A panic of the thread that holds the INSTRUMENTOR mutex: both guards are
\* dropped while panicking, which poisons the mutex.
PanicInside(t) ==
    /\ lock' = 0
    /\ stream_lock' = 0
    /\ poisoned' = TRUE
    /\ Unwind(t)

\* stop() has come back from write_profile: self.stopped = true; a drop ends.
FinishStop(t) ==
    /\ timer' = [timer EXCEPT ![t] =
            IF @.state = "dropping"
            THEN Dropped([@ EXCEPT !.stopped = TRUE])
            ELSE [@ EXCEPT !.stopped = TRUE]]
    /\ result' = [result EXCEPT ![t] = NoResult]
    /\ returned' = IF IsSome(output_stream)
                   THEN returned \cup {result[t].id} ELSE returned

\* ------------------------------------------------------------- begin_session
\* begin_session takes the mutex; internal_begin_session returns at once when
\* a session is active or File::create fails, and else stores the new file in
\* output_stream.
BeginSession(t, name, filepath) ==
    /\ ~aborted /\ pc[t] = "idle"
    /\ LockAvailable /\ ~poisoned
    /\ \/ /\ SessionActive \/ ~Openable(filepath)
          /\ UNCHANGED <<output_stream, files, created, returned, acquired,
                         lock, pc, bsArg>>
       \/ /\ ~SessionActive
          /\ Openable(filepath)
          /\ files' = [files EXCEPT ![filepath] = <<>>]
          /\ created' = created \cup {filepath}
          /\ output_stream' = Some(filepath)
          /\ returned' = {}
          /\ acquired' = <<>>
          /\ lock' = t
          /\ pc' = [pc EXCEPT ![t] = "bs_header"]
          /\ bsArg' = [bsArg EXCEPT ![t] =
                            [name |-> name, filepath |-> filepath]]
    /\ UNCHANGED <<current_session, profile_count, poisoned, stream_lock, now,
                   result, timer, ntimers, aborted>>

\* write_header (lock the stream, write the preamble, flush), then
\* self.current_session = Some(..), and the call returns
WriteHeader(t) ==
    /\ ~aborted /\ pc[t] = "bs_header"
    /\ files' = IF IsSome(output_stream)
                THEN Append1(Unwrap(output_stream), Header) ELSE files
    /\ current_session' = Some(bsArg[t].name)
    /\ Return(t)
    /\ bsArg' = [bsArg EXCEPT ![t] = NoArg]
    /\ UNCHANGED <<output_stream, profile_count, poisoned, stream_lock,
                   created, now, result, timer, ntimers, returned, acquired,
                   aborted>>

\* ------------------------------------------------------------- end_session
\* end_session takes the mutex; internal_end_session returns at once when no
\* session is active.
EndSession(t) ==
    /\ ~aborted /\ pc[t] = "idle"
    /\ LockAvailable /\ ~poisoned
    /\ \/ /\ ~SessionActive
          /\ UNCHANGED <<lock, pc>>
       \/ /\ SessionActive
          /\ lock' = t
          /\ pc' = [pc EXCEPT ![t] = "es_footer"]
    /\ UNCHANGED <<collector, poisoned, stream_lock, files, created, now,
                   bsArg, result, timer, ntimers, returned, acquired, aborted>>

\* write_footer (lock the stream, write the closing token, flush), then
\* output_stream.take() and the drop of the file, current_session = None,
\* profile_count = 0, and the call returns
WriteFooter(t) ==
    /\ ~aborted /\ pc[t] = "es_footer"
    /\ files' = IF IsSome(output_stream)
                THEN Append1(Unwrap(output_stream), Footer) ELSE files
    /\ output_stream' = TakeStream
    /\ current_session' = None
    /\ profile_count' = ResetCount
    /\ Return(t)
    /\ UNCHANGED <<poisoned, stream_lock, created, now, bsArg, result, timer,
                   ntimers, returned, acquired, aborted>>

\* ------------------------------------------------------------- the timer
\* InstrumentationTimer::new; the clock may have advanced by `d` since it
\* was last read.
TimerNew(t, label, d) ==
    /\ ~aborted /\ pc[t] = "idle"
    /\ timer[t].state \in {"none", "dropped"}
    /\ ntimers < MaxTimers
    /\ now + d \in Time
    /\ now' = now + d
    /\ ntimers' = ntimers + 1
    /\ timer' = [timer EXCEPT ![t] =
            [state |-> "live", id |-> ntimers + 1, name |-> label,
             start_timepoint |-> Some(now + d), stopped |-> FALSE,
             submits |-> 0, explicit |-> FALSE]]
    /\ UNCHANGED <<collector, lock, poisoned, stream_lock, files, created,
                   pc, bsArg, result, returned, acquired, aborted>>

\* The body of stop() up to the call of write_profile.  The clock is read
\* twice, by Instant::now() and by start_timepoint.elapsed(); it may have
\* advanced by d1 before the first reading and by d2 between the two.
StopBody(t, d1, d2, st) ==
    LET tm == timer[t]
        start_timepoint == Unwrap(tm.start_timepoint)
        end_timepoint == now + d1
        elapsed == DurationSince(end_timepoint, start_timepoint)
        start == (now + d1 + d2) - start_timepoint
        duration == elapsed
    IN  /\ now + d1 + d2 \in Time
        /\ now' = now + d1 + d2
        /\ result' = [result EXCEPT ![t] =
                [id |-> tm.id, name |-> tm.name, start |-> start,
                 end |-> start + duration, thread_id |-> ThreadIdHash(t)]]
        /\ timer' = [timer EXCEPT ![t] =
                [tm EXCEPT !.state = st,
                           !.start_timepoint = TakenTimepoint(tm),
                           !.submits = @ + 1,
                           !.explicit = @ \/ st = "live"]]
        /\ pc' = [pc EXCEPT ![t] = "wp_wait"]

\* An explicit stop()
TimerStop(t) ==
    /\ ~aborted /\ pc[t] = "idle"
    /\ timer[t].state = "live"
    /\ \/ /\ IsSome(timer[t].start_timepoint)
          /\ \E d1, d2 \in 0..1 : StopBody(t, d1, d2, "live")
       \/ /\ ~IsSome(timer[t].start_timepoint)
          /\ timer' = [timer EXCEPT ![t] = [@ EXCEPT !.explicit = TRUE]]
          /\ UNCHANGED <<now, result, pc>>
    /\ UNCHANGED <<collector, lock, poisoned, stream_lock, files, created,
                   bsArg, ntimers, returned, acquired, aborted>>

\* The timer goes out of scope: drop()
TimerDrop(t) ==
    /\ ~aborted /\ pc[t] = "idle"
    /\ timer[t].state = "live"
    /\ \/ /\ DropNeedsStop(timer[t])
          /\ IsSome(timer[t].start_timepoint)
          /\ \E d1, d2 \in 0..1 : StopBody(t, d1, d2, "dropping")
       \/ /\ ~(DropNeedsStop(timer[t]) /\ IsSome(timer[t].start_timepoint))
          /\ timer' = [timer EXCEPT ![t] = Dropped(@)]
          /\ UNCHANGED <<now, result, pc>>
    /\ UNCHANGED <<collector, lock, poisoned, stream_lock, files, created,
                   bsArg, ntimers, returned, acquired, aborted>>

\* ------------------------------------------------------------- write_profile
\* write_profile takes the mutex; internal_write_profile returns at once when
\* there is no output_stream, and else locks the stream and writes the comma.
WriteProfile(t) ==
    /\ ~aborted /\ pc[t] = "wp_wait"
    /\ LockAvailable /\ ~poisoned
    /\ \/ /\ ~IsSome(output_stream)
          /\ pc' = [pc EXCEPT ![t] = "idle"]
          /\ FinishStop(t)
          /\ UNCHANGED <<lock, stream_lock, files, acquired>>
       \/ /\ IsSome(output_stream)
          /\ lock' = t
          /\ stream_lock' = t
          /\ files' = IF NeedsComma(profile_count)
                      THEN Append1(Unwrap(output_stream), Comma(result[t].id))
                      ELSE files
          /\ acquired' = Append(acquired, result[t].id)
          /\ pc' = [pc EXCEPT ![t] = "wp_event"]
          /\ UNCHANGED <<result, timer, returned>>
    /\ UNCHANGED <<collector, poisoned, created, now, bsArg, ntimers,
                   aborted>>

\* write!(stream, "{..}", ..) of the event object, stream.flush(),
\* self.profile_count += 1, the call returns and stop() ends
WriteEvent(t) ==
    /\ ~aborted /\ pc[t] = "wp_event"
    /\ files' = IF IsSome(output_stream)
                THEN Append1(Unwrap(output_stream), EventTok(result[t]))
                ELSE files
    /\ profile_count' = profile_count + 1
    /\ stream_lock' = 0
    /\ Return(t)
    /\ FinishStop(t)
    /\ UNCHANGED <<current_session, output_stream, poisoned, created, now,
                   bsArg, ntimers, acquired, aborted>>

\* ------------------------------------------------------------- failures
\* What a failed write leaves in the file.
FailedWrite(id) ==
    IF IsSome(output_stream)
    THEN Append1(Unwrap(output_stream), Partial(id)) ELSE files

\* write!(..).unwrap() of write_header panics
WriteHeaderFail(t) ==
    /\ ~aborted /\ pc[t] = "bs_header"
    /\ IsSome(output_stream)
    /\ files' = FailedWrite(0)
    /\ PanicInside(t)
    /\ UNCHANGED <<collector, created, now, ntimers, returned, acquired>>

\* write!(..).unwrap() of write_footer panics
WriteFooterFail(t) ==
    /\ ~aborted /\ pc[t] = "es_footer"
    /\ IsSome(output_stream)
    /\ files' = FailedWrite(0)
    /\ PanicInside(t)
    /\ UNCHANGED <<collector, created, now, ntimers, returned, acquired>>

\* write!(stream, ",").unwrap() panics
WriteCommaFail(t) ==
    /\ ~aborted /\ pc[t] = "wp_wait"
    /\ LockAvailable /\ ~poisoned
    /\ IsSome(output_stream)
    /\ NeedsComma(profile_count)
    /\ files' = FailedWrite(result[t].id)
    /\ acquired' = Append(acquired, result[t].id)
    /\ PanicInside(t)
    /\ UNCHANGED <<collector, created, now, ntimers, returned>>

\* write!(stream, "{..}", ..).unwrap() of the event object panics
WriteEventFail(t) ==
    /\ ~aborted /\ pc[t] = "wp_event"
    /\ files' = FailedWrite(result[t].id)
    /\ PanicInside(t)
    /\ UNCHANGED <<collector, created, now, ntimers, returned, acquired>>

\* INSTRUMENTOR.lock().unwrap() panics on the poisoned mutex
LockPoisoned(t) ==
    /\ ~aborted
    /\ LockAvailable /\ poisoned
    /\ Unwind(t)
    /\ UNCHANGED <<collector, lock, poisoned, stream_lock, files, created, now,
                   ntimers, returned, acquired>>

\* ... in begin_session
BeginSessionPoisoned(t, name, filepath) ==
    /\ pc[t] = "idle"
    /\ LockPoisoned(t)

\* ... in end_session
EndSessionPoisoned(t) ==
    /\ pc[t] = "idle"
    /\ LockPoisoned(t)

\* ... in write_profile
WriteProfilePoisoned(t) ==
    /\ pc[t] = "wp_wait"
    /\ LockPoisoned(t)

\* ------------------------------------------------------------- specification
NextCalls ==
    \E t \in Threads :
        \/ \E in \in BeginInputs : BeginSession(t, in[1], in[2])
        \/ WriteHeader(t)
        \/ EndSession(t)
        \/ WriteFooter(t)
        \/ \E label \in Labels, d \in 0..1 : TimerNew(t, label, d)
        \/ TimerStop(t)
        \/ TimerDrop(t)
        \/ WriteProfile(t)
        \/ WriteEvent(t)

NextFail ==
    \E t \in Threads :
        \/ WriteHeaderFail(t)
        \/ WriteFooterFail(t)
        \/ WriteCommaFail(t)
        \/ WriteEventFail(t)
        \/ \E in \in BeginInputs : BeginSessionPoisoned(t, in[1], in[2])
        \/ EndSessionPoisoned(t)
        \/ WriteProfilePoisoned(t)

Next == NextCalls \/ NextFail

Spec == Init /\ [][Next]_vars

\* ------------------------------------------------------------- documents
IsEvent(tok) == tok.k = "E"
EventsOf(f) == SelectSeq(f, IsEvent)
IdsOf(f) == {f[i].id : i \in {j \in 1..Len(f) : f[j].k = "E"}}
CountOf(f, k) == Cardinality({i \in 1..Len(f) : f[i].k = k})
IsPrefix(f, g) == Len(f) <= Len(g) /\ SubSeq(g, 1, Len(f)) = f

\* The preamble, then event objects separated by single commas.
OpenDocument(f) ==
    /\ Len(f) >= 1
    /\ f[1] = Header
    /\ Len(f) = 1 \/ Len(f) % 2 = 0
    /\ \A i \in 2..Len(f) : f[i].k = IF i % 2 = 0 THEN "E" ELSE ","

\* An open document followed by one closing token.
ClosedDocument(f) ==
    /\ Len(f) >= 2
    /\ f[Len(f)] = Footer
    /\ OpenDocument(SubSeq(f, 1, Len(f) - 1))

InBody(t) == pc[t] \in {"bs_header", "es_footer", "wp_event"}

\* ------------------------------------------------------------- claims

\* C1: in every file, of the current session or of an earlier one, the first
\* event object follows the preamble directly (no comma before it) and every
\* later event object is preceded by exactly one comma, which follows the
\* event object before it.
C1_CommaPlacement ==
    \A p \in Paths :
        \A i \in 1..Len(files[p]) :
            files[p][i].k = "E" =>
                IF \E j \in 1..(i - 1) : files[p][j].k = "E"
                THEN /\ i >= 3
                     /\ files[p][i - 1].k = ","
                     /\ files[p][i - 2].k = "E"
                ELSE /\ i = 2
                     /\ files[p][1] = Header

\* A session begun after an earlier one was ended with an event in its file
\* has written its first event.
C1_Witness ==
    \E p \in Paths, q \in Paths :
        /\ p # q
        /\ ClosedDocument(files[q]) /\ CountOf(files[q], "E") >= 1
        /\ output_stream = Some(p)
        /\ Len(files[p]) >= 2 /\ files[p][2].k = "E"

\* C2: while a session is active and no call is inside the collector, the
\* events in its file are exactly the timers whose stop came back from
\* write_profile in this session, each once; and unless a write has failed
\* the file is the preamble and these events separated by single commas
\* (N events, N-1 commas).
C2_EveryEventOnce ==
    (IsSome(output_stream) /\ lock = 0) =>
        LET f == files[Unwrap(output_stream)] IN
        /\ IdsOf(f) = returned
        /\ CountOf(f, "E") = Cardinality(returned)
        /\ ~poisoned =>
              /\ OpenDocument(f)
              /\ CountOf(f, ",") = (IF returned = {} THEN 0
                                    ELSE Cardinality(returned) - 1)

\* Both threads have stopped a timer in one session: two events, one comma.
C2_Witness ==
    /\ IsSome(output_stream) /\ lock = 0 /\ ~poisoned
    /\ Cardinality(returned) = 2
    /\ LET f == files[Unwrap(output_stream)] IN
       /\ Len(f) = 4
       /\ f[2].tid # f[4].tid
    /\ \A t \in Threads : pc[t] = "idle" /\ timer[t].stopped

\* C3: at most one thread is inside the body of begin_session, end_session or
\* write_profile, and it holds the mutex; and a comma is always followed at
\* once by the event object (or its failed rest) of the call that wrote it,
\* or is the last token while that call is still about to write its event.
C3_MutualExclusion ==
    /\ Cardinality({t \in Threads : InBody(t)}) <= 1
    /\ \A t \in Threads : InBody(t) => lock = t
    /\ \A p \in Paths :
        \A i \in 1..Len(files[p]) :
            files[p][i].k = "," =>
                IF i < Len(files[p])
                THEN /\ files[p][i + 1].k \in {"E", "partial"}
                     /\ files[p][i + 1].id = files[p][i].id
                ELSE \/ \E t \in Threads :
                            /\ pc[t] = "wp_event"
                            /\ result[t].id = files[p][i].id
                            /\ output_stream = Some(p)
                     \/ poisoned

\* One thread is inside write_profile, about to write its event, and holds
\* the mutex while the other waits in write_profile for it.
C3_Witness ==
    \E t \in Threads, u \in Threads :
        /\ pc[t] = "wp_event" /\ lock = t /\ stream_lock = t
        /\ pc[u] = "wp_wait"
        /\ IsSome(current_session)

\* C4: a begin_session step taken while a session is active changes neither
\* the session, the stream, the counter, any file nor the set of files; and
\* while a session is active every step leaves the files that are not the
\* open one as they are, creates none, and only appends tokens other than the
\* preamble to the open one.
C4_SecondBeginIsNoop ==
    /\ [][IsSome(current_session) =>
            \/ UNCHANGED <<collector, files, created, pc, lock>>
            \/ \A t \in Threads : \A in \in BeginInputs :
                    ~BeginSession(t, in[1], in[2])]_vars
    /\ [][IsSome(current_session) =>
            /\ created' = created
            /\ current_session' \in {current_session, None}
            /\ output_stream' \in {output_stream, None}
            /\ \A p \in Paths :
                \/ files'[p] = files[p]
                \/ /\ output_stream = Some(p)
                   /\ IsPrefix(files[p], files'[p])
                   /\ \A i \in (Len(files[p]) + 1)..Len(files'[p]) :
                            files'[p][i].k # "H"]_vars

\* A session is active with an event in its file, the mutex is free, a thread
\* is about to call, and another openable path has no file yet.
C4_Witness ==
    /\ IsSome(current_session) /\ lock = 0 /\ ~poisoned
    /\ CountOf(files[Unwrap(output_stream)], "E") >= 1
    /\ \E t \in Threads : pc[t] = "idle"
    /\ \E q \in GoodPaths : q \notin created

\* C5: when end_session returns from an active session, the session's file is
\* the preamble, its events separated by single commas (the ones it held
\* before) and one closing token, and the collector holds no session, no
\* stream and a counter of zero; an end_session step with no session active
\* changes no file, and no file ever holds two closing tokens.
C5_EndCompletesFile ==
    /\ [][\A t \in Threads :
            (pc[t] = "es_footer" /\ pc'[t] = "idle") =>
                /\ ClosedDocument(files'[Unwrap(output_stream)])
                /\ EventsOf(files'[Unwrap(output_stream)])
                        = EventsOf(files[Unwrap(output_stream)])
                /\ current_session' = None
                /\ output_stream' = None
                /\ profile_count' = 0
                /\ lock' = 0]_vars
    /\ [][\A t \in Threads :
            (~IsSome(current_session) /\ EndSession(t)) => files' = files]_vars
    /\ [](\A p \in Paths : CountOf(files[p], "F") <= 1)

\* end_session has returned: a closed file with two events, no session.
C5_Witness ==
    /\ current_session = None /\ output_stream = None /\ lock = 0
    /\ ~poisoned
    /\ \E p \in Paths : ClosedDocument(files[p]) /\ CountOf(files[p], "E") = 2

\* C6: a timer never submits twice, a stopped timer has submitted exactly
\* once, and a stop() or drop of a timer that is already stopped changes
\* neither the timer's submissions nor the collector, the files, the mutex or
\* the thread's position.
C6_OneSubmission ==
    /\ [](\A t \in Threads :
            /\ timer[t].submits <= 1
            /\ timer[t].stopped => timer[t].submits = 1)
    /\ [][\A t \in Threads :
            (timer[t].stopped /\ (TimerStop(t) \/ TimerDrop(t))) =>
                /\ timer'[t].submits = timer[t].submits
                /\ UNCHANGED <<collector, files, created, lock, pc, result>>]_vars

\* A timer that was stopped explicitly and then dropped.
C6_Witness ==
    \E t \in Threads :
        /\ timer[t].state = "dropped"
        /\ timer[t].explicit
        /\ timer[t].submits = 1

\* C7: a timer that is gone has submitted exactly one event, whether or not
\* stop() was called on it, and every event submitted or written has a
\* duration that is not negative.
C7_DropSubmitsOnce ==
    /\ \A t \in Threads :
        /\ timer[t].state = "dropped" => timer[t].submits = 1
        /\ result[t].end - result[t].start >= 0
    /\ \A p \in Paths :
        \A i \in 1..Len(files[p]) : files[p][i].dur >= 0

\* A timer that was never stopped explicitly has gone out of scope, and its
\* thread's event, of a duration above zero, is in a file.
C7_Witness ==
    \E t \in Threads :
        /\ timer[t].state = "dropped"
        /\ ~timer[t].explicit
        /\ timer[t].submits = 1
        /\ \E p \in Paths : \E i \in 1..Len(files[p]) :
                /\ files[p][i].k = "E"
                /\ files[p][i].tid = ThreadIdHash(t)
                /\ files[p][i].dur > 0

\* C8: no call of the instrumentation ever panics: no thread unwinds and the
\* process does not abort.
C8_NeverPanics ==
    /\ ~aborted
    /\ \A t \in Threads : pc[t] # "panicked"

\* A call of begin_session: it takes the mutex or finds it poisoned.
BeginSessionCalled(t, name, filepath) ==
    BeginSession(t, name, filepath) \/ BeginSessionPoisoned(t, name, filepath)

\* A call of end_session: it takes the mutex or finds it poisoned.
EndSessionCalled(t) == EndSession(t) \/ EndSessionPoisoned(t)

\* C9: a begin_session call made with no session active and a path that
\* cannot be opened returns normally and leaves the session, the stream, the
\* counter and the files as they were.
C9_OpenFailureSwallowed ==
    [][\A t \in Threads : \A in \in BeginInputs :
        (/\ ~IsSome(current_session)
         /\ ~Openable(in[2])
         /\ BeginSessionCalled(t, in[1], in[2]))
            => /\ pc'[t] = "idle"
               /\ ~aborted'
               /\ UNCHANGED <<collector, files, created>>]_vars

\* C10: an end_session call made with no session active returns normally,
\* writes to no file and leaves the session, the stream and the counter as
\* they were.
C10_EndWithoutSession ==
    [][\A t \in Threads :
        (~IsSome(current_session) /\ EndSessionCalled(t))
            => /\ pc'[t] = "idle"
               /\ ~aborted'
               /\ UNCHANGED <<collector, files, created>>]_vars

\* A call of write_profile by a stopping timer: it takes the mutex (and may
\* fail on its first write) or finds the mutex poisoned.
WriteProfileCalled(t) ==
    WriteProfile(t) \/ WriteCommaFail(t) \/ WriteProfilePoisoned(t)

\* C11: a write_profile call made with no session active returns normally,
\* writes to no file and finds and leaves the event counter at zero.
C11_NoSessionDropsEvent ==
    [][\A t \in Threads :
        (~IsSome(current_session) /\ WriteProfileCalled(t))
            => /\ pc'[t] = "idle"
               /\ ~aborted'
               /\ files' = files
               /\ profile_count = 0 /\ profile_count' = 0]_vars

\* ------------------------------------------------------------- labels
\* The labels a timer may be given: every string of at most MaxLabelLen
\* characters over an ordinary character, the double quote, the apostrophe
\* and the backslash.
MaxLabelLen == 2
LabelChars == {"q", "\"", "'", "\\"}
AllLabels == UNION {[1..k -> LabelChars] : k \in 0..MaxLabelLen}

\* The first timer of a run, created with any label.
TimerNewLabelled(t, label) ==
    /\ ntimers = 0
    /\ TimerNew(t, label, 0)

\* The calls of the program, the run's one timer carrying any label.
NextNames ==
    \E t \in Threads :
        \/ \E in \in BeginInputs : BeginSession(t, in[1], in[2])
        \/ WriteHeader(t)
        \/ EndSession(t)
        \/ WriteFooter(t)
        \/ \E label \in AllLabels : TimerNewLabelled(t, label)
        \/ TimerStop(t)
        \/ TimerDrop(t)
        \/ WriteProfile(t)
        \/ WriteEvent(t)

SpecNames == Init /\ [][NextNames]_vars

\* A character that needs no escape inside a string literal.
Ordinary(c) == c \notin {"\"", "\\"}
\* The text between the quotes of "name":"..." reads as one string literal.
WellFormedLiteral(s) == \A i \in 1..Len(s) : Ordinary(s[i])

\* C12: the name of the event object that a write_profile call appends is
\* the call's label with every double quote replaced by an apostrophe and
\* every other character as it was; no written name holds a double quote, and
\* the name written for a label of ordinary characters and double quotes is a
\* well-formed string literal.
C12_QuotesReplaced ==
    /\ [][\A t \in Threads :
            (pc[t] = "wp_event" /\ pc'[t] = "idle") =>
                LET f == files'[Unwrap(output_stream)]
                    label == result[t].name
                    written == f[Len(f)].name
                IN  /\ f[Len(f)].k = "E"
                    /\ Len(written) = Len(label)
                    /\ \A i \in 1..Len(label) :
                            written[i] = IF label[i] = "\"" THEN "'"
                                         ELSE label[i]
                    /\ (\A i \in 1..Len(label) :
                            Ordinary(label[i]) \/ label[i] = "\"")
                        => WellFormedLiteral(written)]_vars
    /\ [](\A p \in Paths : \A i \in 1..Len(files[p]) :
            \A j \in 1..Len(files[p][i].name) : files[p][i].name[j] # "\"")

\* A stopped timer whose label is a double quote and an ordinary character,
\* and its event in a file under the name with an apostrophe instead.
C12_Witness ==
    \E t \in Threads :
        /\ timer[t].state = "live" /\ timer[t].stopped
        /\ timer[t].name = <<"\"", "q">>
        /\ \E p \in Paths : \E i \in 1..Len(files[p]) :
                /\ files[p][i].k = "E"
                /\ files[p][i].id = timer[t].id
                /\ files[p][i].name = <<"'", "q">>

\* C13: a closing token is the last token of its file, and a file that ends
\* with a closing token stays as it is in every step, of write_profile and
\* end_session included, but the begin_session step that opens a new session
\* on its path and truncates it.
C13_NothingAfterEnd ==
    /\ [](\A p \in Paths : \A i \in 1..Len(files[p]) :
            files[p][i].k = "F" => i = Len(files[p]))
    /\ [][\/ files' = files
          \/ \A p \in Paths :
                (Len(files[p]) > 0 /\ files[p][Len(files[p])].k = "F") =>
                    \/ files'[p] = files[p]
                    \/ /\ files'[p] = <<>>
                       /\ output_stream = None
                       /\ output_stream' = Some(p)]_vars

\* end_session has closed a file that holds an event, no session is active,
\* and a timer's write_profile call is still waiting for the mutex.
C13_Witness ==
    /\ output_stream = None /\ current_session = None /\ ~poisoned
    /\ \E p \in Paths :
        /\ ClosedDocument(files[p]) /\ CountOf(files[p], "E") >= 1
        /\ \E t \in Threads :
            /\ pc[t] = "wp_wait"
            /\ result[t].id \notin IdsOf(files[p])

\* The timers of the event objects of a file, in file order.
RECURSIVE EventIdSeq(_)
EventIdSeq(f) ==
    IF f = <<>> THEN <<>>
    ELSE (IF Head(f).k = "E" THEN <<Head(f).id>> ELSE <<>>)
            \o EventIdSeq(Tail(f))

\* C14: the event objects of the session's file are, in file order, the
\* write_profile calls of the session in the order they took the mutex: all
\* of them when the mutex is free and no write has failed, and else all but
\* the last, which has not written its event.
C14_FileOrderIsLockOrder ==
    IsSome(output_stream) =>
        LET ids == EventIdSeq(files[Unwrap(output_stream)]) IN
        /\ IsPrefix(ids, acquired)
        /\ Len(acquired) <= Len(ids) + 1
        /\ (lock = 0 /\ ~poisoned) => ids = acquired

\* The timer created second took the mutex first: its event is the first of
\* the file and the event of the timer created first is the second.
C14_Witness ==
    /\ IsSome(output_stream) /\ lock = 0 /\ ~poisoned
    /\ acquired = <<2, 1>>
    /\ EventIdSeq(files[Unwrap(output_stream)]) = <<2, 1>>

\* C15: the event counter is zero whenever no session is active, and when a
\* begin_session that opened its file returns, the session is active, its
\* file holds the preamble alone and the event counter is zero.
C15_CounterZeroAfterBegin ==
    /\ [](~IsSome(current_session) => profile_count = 0)
    /\ [][\A t \in Threads :
            (pc[t] = "bs_header" /\ pc'[t] = "idle") =>
                /\ IsSome(current_session')
                /\ profile_count' = 0
                /\ files'[Unwrap(output_stream')] = <<Header>>]_vars

\* A session has just begun after an earlier session, whose file holds two
\* events, was ended.
C15_Witness ==
    /\ IsSome(current_session) /\ lock = 0 /\ ~poisoned
    /\ profile_count = 0
    /\ files[Unwrap(output_stream)] = <<Header>>
    /\ \E q \in Paths :
        ClosedDocument(files[q]) /\ CountOf(files[q], "E") = 2

\* C16: whenever the mutex is free and a session is active, the session's
\* file is the preamble and profile_count complete event objects separated by
\* single commas, with no closing token and no partial event object.
C16_FileMatchesCounter ==
    (IsSome(current_session) /\ lock = 0) =>
        /\ IsSome(output_stream)
        /\ LET f == files[Unwrap(output_stream)] IN
           /\ OpenDocument(f)
           /\ CountOf(f, "E") = profile_count

\* C17: the first token of every file that begin_session has written is the
\* preamble {"otherData": {}, "traceEvents":[ and no preamble stands
\* anywhere else in a file.
C17_PreambleText ==
    \A p \in Paths : \A i \in 1..Len(files[p]) :
        files[p][i].k = "H" =>
            /\ i = 1
            /\ files[p][i].text = "{\"otherData\": {}, \"traceEvents\":["

\* C18: every event submitted or written has ts >= dur >= 0; the event that
\* stop() submits has ts = the clock at the second reading minus the clock at
\* the timer's creation, and dur = a clock reading between the call of stop()
\* and that second reading minus the clock at the timer's creation, whatever
\* the session is; and the event object written carries the ts and the dur
\* (end - start) of the submitted event.
C18_Timestamps ==
    /\ [](\A t \in Threads :
            /\ result[t].start >= result[t].end - result[t].start
            /\ result[t].end - result[t].start >= 0)
    /\ [](\A p \in Paths : \A i \in 1..Len(files[p]) :
            files[p][i].k = "E" =>
                files[p][i].ts >= files[p][i].dur /\ files[p][i].dur >= 0)
    /\ [][\A t \in Threads :
            (pc[t] = "idle" /\ pc'[t] = "wp_wait") =>
                LET created_at == Unwrap(timer[t].start_timepoint)
                    ts == result'[t].start
                    dur == result'[t].end - result'[t].start
                IN  /\ ts = now' - created_at
                    /\ now - created_at <= dur
                    /\ dur <= now' - created_at]_vars
    /\ [][\A t \in Threads :
            (pc[t] = "wp_event" /\ pc'[t] = "idle") =>
                LET f == files'[Unwrap(output_stream)] IN
                /\ f[Len(f)].ts = result[t].start
                /\ f[Len(f)].dur = result[t].end - result[t].start]_vars

\* One file holds an event with ts above dur and an event with dur above zero.
C18_Witness ==
    \E p \in Paths : \E i, j \in 1..Len(files[p]) :
        /\ files[p][i].k = "E" /\ files[p][i].ts > files[p][i].dur
        /\ files[p][j].k = "E" /\ files[p][j].dur > 0

\* C19: whenever the mutex is free, current_session is present exactly when
\* output_stream is present, and when both are absent the event counter is
\* zero.
C19_SessionIffStream ==
    lock = 0 =>
        /\ IsSome(current_session) <=> IsSome(output_stream)
        /\ (~IsSome(current_session) /\ ~IsSome(output_stream))
                => profile_count = 0

\* ------------------------------------------------------------- fairness
\* The calls of the program with no I/O failure, under fair scheduling: a
\* thread inside the collector goes on, and a thread that waits for the mutex
\* gets it if the mutex is free again and again.
\* A stop() and a drop during which the clock does not advance: whether a
\* call returns does not depend on what the clock reads.
TimerStopAtOnce(t) == TimerStop(t) /\ now' = now
TimerDropAtOnce(t) == TimerDrop(t) /\ now' = now

NextFair ==
    \E t \in Threads :
        \/ \E in \in BeginInputs : BeginSession(t, in[1], in[2])
        \/ WriteHeader(t)
        \/ EndSession(t)
        \/ WriteFooter(t)
        \/ \E label \in Labels : TimerNew(t, label, 0)
        \/ TimerStopAtOnce(t)
        \/ TimerDropAtOnce(t)
        \/ WriteProfile(t)
        \/ WriteEvent(t)

SpecFair ==
    /\ Init
    /\ [][NextFair]_vars
    /\ \A t \in Threads :
        /\ WF_vars(WriteHeader(t))
        /\ WF_vars(WriteFooter(t))
        /\ WF_vars(WriteEvent(t))
        /\ SF_vars(WriteProfile(t))

====
